---- MODULE Spec2Model ----
(***************************************************************************)
(* Chat-to-PDF application (src/src/app.py): the process-wide state, the   *)
(* two handlers upload_and_prepare and chat, and the reply interpretation  *)
(* (trim, fence stripping, json.loads) that chat performs.                 *)
(*                                                                         *)
(* Python str values are TLA+ strings; a character is a string of length   *)
(* one.  Python values of other types are tagged records (PyNone, PyStr,   *)
(* PyInt, PyList, PyDict ...).  The text alphabet used for model outputs   *)
(* holds no backslash, so JSON escape sequences are not modelled.          *)
(***************************************************************************)
EXTENDS Integers, Sequences, FiniteSets, TLC

-----------------------------------------------------------------------------
(* Python values *)

PyNone == [type |-> "NoneType"]
PyStr(s) == [type |-> "str", chars |-> s]
PyInt(n) == [type |-> "int", num |-> n]
PyFloat(lexeme) == [type |-> "float", repr |-> lexeme]
PyBool(b) == [type |-> "bool", truth |-> b]
PyList(elems) == [type |-> "list", elems |-> elems]
PyDict(items) == [type |-> "dict", items |-> items]

\* isinstance(v, str)
IsStr(v) == v.type = "str"

\* str(v) for the values a model callable can hand back
RECURSIVE DigitsOf(_)
DigitsOf(n) ==
    IF n < 10 THEN SubSeq("0123456789", n + 1, n + 1)
    ELSE DigitsOf(n \div 10) \o SubSeq("0123456789", (n % 10) + 1, (n % 10) + 1)

str(v) ==
    CASE v.type = "str" -> v.chars
      [] v.type = "NoneType" -> "None"
      [] v.type = "int" -> IF v.num < 0 THEN "-" \o DigitsOf(0 - v.num) ELSE DigitsOf(v.num)
      [] v.type = "bool" -> IF v.truth THEN "True" ELSE "False"

-----------------------------------------------------------------------------
(* str methods used by chat *)

Ch(s, i) == SubSeq(s, i, i)

\* characters str.strip() removes (the ASCII ones expressible here)
PyWhitespace == {" ", "\t", "\n", "\r", "\f"}

RECURSIVE LStripChars(_, _)
LStripChars(s, cs) ==
    IF Len(s) > 0 /\ Ch(s, 1) \in cs THEN LStripChars(SubSeq(s, 2, Len(s)), cs) ELSE s

RECURSIVE RStripChars(_, _)
RStripChars(s, cs) ==
    IF Len(s) > 0 /\ Ch(s, Len(s)) \in cs THEN RStripChars(SubSeq(s, 1, Len(s) - 1), cs) ELSE s

\* The backtick character.  A TLA+ string literal cannot hold a backtick, so
\* the tilde, which occurs in no other text of the model, stands for it.
Backtick == "~"
Fence == Backtick \o Backtick \o Backtick

\* s.strip(chars)
StripChars(s, cs) == RStripChars(LStripChars(s, cs), cs)

\* s.strip()
Strip(s) == StripChars(s, PyWhitespace)

\* s.startswith(p)
StartsWith(s, p) == Len(s) >= Len(p) /\ SubSeq(s, 1, Len(p)) = p

\* index of the first occurrence of character c in s at or after i, 0 if none
RECURSIVE Find(_, _, _)
Find(s, c, i) ==
    IF i > Len(s) THEN 0
    ELSE IF Ch(s, i) = c THEN i
    ELSE Find(s, c, i + 1)

\* c in s
Contains(s, c) == Find(s, c, 1) # 0

\* s.split(c, 1)[1], for s that contains c
SplitAfterFirst(s, c) == SubSeq(s, Find(s, c, 1) + 1, Len(s))

\* sep.join(list)
RECURSIVE Join(_, _)
Join(sep, list) ==
    IF Len(list) = 0 THEN ""
    ELSE IF Len(list) = 1 THEN list[1]
    ELSE list[1] \o sep \o Join(sep, Tail(list))

-----------------------------------------------------------------------------
(* json.loads: the decoder of the Python standard library (strict mode),   *)
(* as a recursive-descent parser over positions of the text.               *)

JsonWhitespace == {" ", "\t", "\n", "\r"}
Digits == {"0", "1", "2", "3", "4", "5", "6", "7", "8", "9"}
ControlChars == {"\t", "\n", "\r", "\f"}

Fail == [ok |-> FALSE, val |-> PyNone, pos |-> 0]
Ok(v, p) == [ok |-> TRUE, val |-> v, pos |-> p]

At(s, i) == IF i >= 1 /\ i <= Len(s) THEN Ch(s, i) ELSE ""

\* s[i:i+len(w)] == w
Looking(s, i, w) == i + Len(w) - 1 <= Len(s) /\ SubSeq(s, i, i + Len(w) - 1) = w

RECURSIVE SkipWs(_, _)
SkipWs(s, i) == IF At(s, i) \in JsonWhitespace THEN SkipWs(s, i + 1) ELSE i

RECURSIVE SkipDigits(_, _)
SkipDigits(s, i) == IF At(s, i) \in Digits THEN SkipDigits(s, i + 1) ELSE i

DigitVal(c) == CHOOSE n \in 0..9 : Ch("0123456789", n + 1) = c

RECURSIVE NatOf(_)
NatOf(ds) ==
    IF Len(ds) = 0 THEN 0
    ELSE 10 * NatOf(SubSeq(ds, 1, Len(ds) - 1)) + DigitVal(Ch(ds, Len(ds)))

\* position of the closing quote of the string whose content starts at i;
\* 0 if the string is unterminated or holds a control character
RECURSIVE StringEnd(_, _)
StringEnd(s, i) ==
    IF i > Len(s) THEN 0
    ELSE IF Ch(s, i) = "\"" THEN i
    ELSE IF Ch(s, i) \in ControlChars THEN 0
    ELSE StringEnd(s, i + 1)

\* a string literal whose opening quote is at i
ScanString(s, i) ==
    LET e == StringEnd(s, i + 1)
    IN  IF e = 0 THEN Fail ELSE Ok(PyStr(SubSeq(s, i + 1, e - 1)), e + 1)

\* NUMBER_RE: (-?(?:0|[1-9]\d*))(\.\d+)?([eE][-+]?\d+)?
ScanNumber(s, i) ==
    LET neg == At(s, i) = "-"
        d0 == IF neg THEN i + 1 ELSE i
        d1 == IF At(s, d0) = "0" THEN d0 + 1 ELSE SkipDigits(s, d0)
        f1 == IF At(s, d1) = "." /\ At(s, d1 + 1) \in Digits THEN SkipDigits(s, d1 + 1) ELSE d1
        x0 == IF At(s, f1) \in {"e", "E"}
              THEN (IF At(s, f1 + 1) \in {"-", "+"} THEN f1 + 2 ELSE f1 + 1)
              ELSE f1
        x1 == IF x0 > f1 /\ At(s, x0) \in Digits THEN SkipDigits(s, x0) ELSE f1
    IN  IF d1 = d0 THEN Fail
        ELSE IF x1 = d1
             THEN Ok(PyInt(IF neg THEN 0 - NatOf(SubSeq(s, d0, d1 - 1))
                                  ELSE NatOf(SubSeq(s, d0, d1 - 1))), d1)
             ELSE Ok(PyFloat(SubSeq(s, i, x1 - 1)), x1)

Put(f, k, v) == [x \in (DOMAIN f) \cup {k} |-> IF x = k THEN v ELSE f[x]]

RECURSIVE ScanOnce(_, _)
RECURSIVE ScanMembers(_, _, _)
RECURSIVE ScanElements(_, _, _)

\* JSONObject, from the key whose opening quote is expected at i
ScanMembers(s, i, acc) ==
    IF At(s, i) # "\"" THEN Fail
    ELSE LET k == ScanString(s, i)
         IN  IF ~k.ok THEN Fail
             ELSE LET c == SkipWs(s, k.pos)
                  IN  IF At(s, c) # ":" THEN Fail
                      ELSE LET v == ScanOnce(s, SkipWs(s, c + 1))
                           IN  IF ~v.ok THEN Fail
                               ELSE LET n == SkipWs(s, v.pos)
                                        acc2 == Put(acc, k.val.chars, v.val)
                                    IN  IF At(s, n) = "}" THEN Ok(PyDict(acc2), n + 1)
                                        ELSE IF At(s, n) = "," THEN ScanMembers(s, SkipWs(s, n + 1), acc2)
                                        ELSE Fail

\* JSONArray, from the element expected at i
ScanElements(s, i, acc) ==
    LET v == ScanOnce(s, i)
    IN  IF ~v.ok THEN Fail
        ELSE LET n == SkipWs(s, v.pos)
                 acc2 == Append(acc, v.val)
             IN  IF At(s, n) = "]" THEN Ok(PyList(acc2), n + 1)
                 ELSE IF At(s, n) = "," THEN ScanElements(s, SkipWs(s, n + 1), acc2)
                 ELSE Fail

\* scan_once: one JSON value starting exactly at i
ScanOnce(s, i) ==
    LET c == At(s, i)
    IN  IF c = "" THEN Fail
        ELSE IF c = "\"" THEN ScanString(s, i)
        ELSE IF c = "{" THEN
            (LET j == SkipWs(s, i + 1)
             IN  IF At(s, j) = "}" THEN Ok(PyDict(<<>>), j + 1)
                 ELSE ScanMembers(s, j, <<>>))
        ELSE IF c = "[" THEN
            (LET j == SkipWs(s, i + 1)
             IN  IF At(s, j) = "]" THEN Ok(PyList(<<>>), j + 1)
                 ELSE ScanElements(s, j, <<>>))
        ELSE IF Looking(s, i, "null") THEN Ok(PyNone, i + 4)
        ELSE IF Looking(s, i, "true") THEN Ok(PyBool(TRUE), i + 4)
        ELSE IF Looking(s, i, "false") THEN Ok(PyBool(FALSE), i + 5)
        ELSE IF ScanNumber(s, i).ok THEN ScanNumber(s, i)
        ELSE IF Looking(s, i, "NaN") THEN Ok(PyFloat("NaN"), i + 3)
        ELSE IF Looking(s, i, "Infinity") THEN Ok(PyFloat("Infinity"), i + 8)
        ELSE IF Looking(s, i, "-Infinity") THEN Ok(PyFloat("-Infinity"), i + 9)
        ELSE Fail

\* JSONDecoder.decode: only whitespace may follow the value ("Extra data")
DecodeEnd(s, r) ==
    IF ~r.ok THEN Fail
    ELSE IF SkipWs(s, r.pos) # Len(s) + 1 THEN Fail
    ELSE r

\* json.loads(s): ok is FALSE where the decoder raises JSONDecodeError
json_loads(s) == DecodeEnd(s, ScanOnce(s, SkipWs(s, 1)))

-----------------------------------------------------------------------------
(* Bounds and input sets *)

MaxTurns == 2      \* chat calls in one behaviour
MaxUploads == 2    \* upload_and_prepare calls in one behaviour

\* universal_v4_contract.xml is read once at start-up and is opaque to the code
PROMPT_CONTRACT == "<contract>Reply in JSON with an answer key.</contract>"

Questions == {"What was revenue?"}
ApiKeys == {"", "key-1"}

\* An uploaded file: absent, a PDF PdfReader cannot read, or a PDF given by
\* what extract_text() returns for each of its pages
NoFile == [kind |-> "none"]
CorruptPdf == [kind |-> "corrupt", exc |-> "EOF marker not found"]
Pdf(pages) == [kind |-> "pdf", pages |-> pages]
PdfFiles ==
    {NoFile, CorruptPdf, Pdf(<<>>), Pdf(<<PyStr("Revenue was $5M."), PyNone>>)}

\* What one invocation of the model callable does
Return(v) == [kind |-> "return", value |-> v, msg |-> ""]
Raise(m) == [kind |-> "raise", value |-> PyNone, msg |-> m]
NotInvoked == [kind |-> "none", value |-> PyNone, msg |-> ""]

Bodies ==
    { "{\"answer\": \"$5M\", \"evidence\": \"page 1\"}",
      "{\n \"answer\": 5\n}",
      "{\"answer\":null}",
      "{\"evidence\":\"page 1\"}",
      "[\"$5M\"]",
      "Revenue was $5M.",
      "\f{\"answer\":\"x\"}" }

Tags == {"json", ""}

\* body wrapped in triple-backtick fences with a leading language tag line
Fenced(tag, body) == Fence \o tag \o "\n" \o body \o "\n" \o Fence

RawOutputs ==
    Bodies
    \cup {" " \o b \o " \n" : b \in Bodies}
    \cup {Fenced(t, b) : t \in Tags, b \in Bodies}
    \cup {Fence \o b \o Fence : b \in Bodies}

ExceptionMessages == {"", "503 UNAVAILABLE", "timed out\n"}

\* call_stub's message (the source writes its hyphens as U+2011)
StubMessage ==
    "Neither google-genai nor google-generativeai is installed. "
    \o "Please install one of these packages to enable Gemini API calls."

\* one reply of each kind, for behaviours that mix uploads and turns
SessionOutputs ==
    { Fenced("json", "{\"answer\": \"$5M\", \"evidence\": \"page 1\"}"),
      "[\"$5M\"]",
      " Revenue was $5M. \n" }

SessionExceptions == {"503 UNAVAILABLE"}

\* what the callable bound to gemini_call can do when invoked: the stub
\* returns its fixed message, an SDK closure returns response.text (a str or
\* None) or lets the provider's exception through
Outcomes(fn, texts, messages) ==
    IF fn = "call_stub" THEN {Return(PyStr(StubMessage))}
    ELSE {Return(PyStr(t)) : t \in texts}
         \cup {Return(PyNone)}
         \cup {Raise(m) : m \in messages}

-----------------------------------------------------------------------------
(* State *)

VARIABLES
    PdfReader,              \* TRUE iff PyPDF2 was importable
    genai,                  \* TRUE iff google.genai was importable
    generativeai,           \* TRUE iff google.generativeai was importable
    pdf_text_content,
    api_key,
    gemini_call,            \* "None" or the name of the bound closure
    conversation_logs,
    answer_json_log,
    answer_structured_log,
    history,                \* the list chat receives, mutates and returns
    status_output,          \* what the last upload_and_prepare returned
    chat_return,            \* the tuple the last chat returned
    turns,                  \* per chat call: its question, prompt and model outcome,
                            \* and the lengths of the reply logs when it began
    uploads,                \* number of upload_and_prepare calls so far
    last                    \* the handler that ran last

vars == <<PdfReader, genai, generativeai, pdf_text_content, api_key, gemini_call,
          conversation_logs, answer_json_log, answer_structured_log, history,
          status_output, chat_return, turns, uploads, last>>

env == <<PdfReader, genai, generativeai>>

Last(seq) == seq[Len(seq)]

-----------------------------------------------------------------------------
(* parse_pdf and init_gemini_client *)

PyPDF2Missing ==
    "PyPDF2 is not installed. Please install it via pip to enable PDF parsing."

\* page.extract_text() or ""
PageText(v) == IF v.type = "str" THEN v.chars ELSE ""

RECURSIVE PagesText(_)
PagesText(pages) ==
    IF Len(pages) = 0 THEN ""
    ELSE PageText(Head(pages)) \o "\n" \o PagesText(Tail(pages))

parse_pdf(file_obj, reader) ==
    IF file_obj.kind = "none" THEN ""
    ELSE IF ~reader THEN PyPDF2Missing
    ELSE IF file_obj.kind = "corrupt" THEN "Error parsing PDF: " \o file_obj.exc
    ELSE PagesText(file_obj.pages)

\* the closure init_gemini_client returns; raised where it raises ValueError
init_gemini_client(provided_key, has_genai, has_generativeai) ==
    [api_key |-> provided_key,
     raised |-> provided_key = "",
     fn |-> IF has_genai THEN "call_with_genai"
            ELSE IF has_generativeai THEN "call_with_generativeai"
            ELSE "call_stub"]

-----------------------------------------------------------------------------
(* upload_and_prepare *)

\* the JSON text json.dumps makes of a dict; an entry of conversation_logs
\* stands for that text, which no handler reads back
json_dumps(d) == [json |-> d]

InitialisedEvent == json_dumps([event |-> "initialised", message |-> "Loaded PDF and API key"])

upload_and_prepare(pdf_file, user_api_key) ==
    /\ uploads' = uploads + 1
    /\ last' = [op |-> "upload_and_prepare", user_message |-> ""]
    /\ UNCHANGED <<env, answer_json_log, answer_structured_log, history, chat_return, turns>>
    /\ IF pdf_file.kind = "none" THEN
            /\ status_output' = "Please upload a PDF file."
            /\ UNCHANGED <<pdf_text_content, api_key, gemini_call, conversation_logs>>
       ELSE IF user_api_key = "" THEN
            /\ status_output' = "Please provide your Gemini API key."
            /\ UNCHANGED <<pdf_text_content, api_key, gemini_call, conversation_logs>>
       ELSE
            /\ pdf_text_content' = parse_pdf(pdf_file, PdfReader)
            /\ IF pdf_text_content' = "" THEN
                    /\ status_output' = "Failed to parse PDF or PDF contained no extractable text."
                    /\ UNCHANGED <<api_key, gemini_call, conversation_logs>>
               ELSE LET client == init_gemini_client(user_api_key, genai, generativeai)
                    IN  /\ api_key' = client.api_key
                        /\ IF client.raised THEN
                                UNCHANGED <<gemini_call, conversation_logs, status_output>>
                           ELSE
                                /\ gemini_call' = client.fn
                                /\ conversation_logs' = Append(conversation_logs, InitialisedEvent)
                                /\ status_output' =
                                     "PDF loaded and API key set. You can now ask questions about the document."

-----------------------------------------------------------------------------
(* chat *)

NoDocumentMessage == "Please upload a PDF and set your API key before asking questions."
NoKeyMessage == "API key is missing. Please upload a PDF and provide your key first."

\* the guard written as "pdf_text_content is None", which no str satisfies
MissingDocument_IsNone(text) == FALSE

\* not pdf_text_content
MissingDocument(text) == text = ""

\* not api_key
MissingKey(key) == key = ""

\* the question joined ahead of the document
ComposePrompt_QuestionFirst(contract, document, user_message) ==
    LET system_prompt == contract
        document_context == "Document contents:\n" \o document \o "\n"
    IN  Join("\n", <<system_prompt, user_message, document_context>>)

\* messages_for_api
ComposePrompt(contract, document, user_message) ==
    LET system_prompt == contract
        document_context == "Document contents:\n" \o document \o "\n"
    IN  Join("\n", <<system_prompt, document_context, user_message>>)

\* model_output: what the try/except around the call leaves
CallModel(fn, outcome) ==
    IF fn = "None" THEN PyStr("Gemini client is not initialised.")
    ELSE IF outcome.kind = "raise" THEN PyStr("Error calling Gemini API: " \o outcome.msg)
    ELSE outcome.value

\* the language tag line left in place
DropTagLine_Kept(unfenced) == unfenced

\* if "\n" in stripped: stripped = stripped.split("\n", 1)[1]
DropTagLine(unfenced) ==
    IF Contains(unfenced, "\n") THEN SplitAfterFirst(unfenced, "\n") ELSE unfenced

\* if stripped.startswith(fence): stripped = stripped.strip(backtick) ...
RemoveFence(stripped) ==
    IF StartsWith(stripped, Fence) THEN DropTagLine(StripChars(stripped, {Backtick}))
    ELSE stripped

\* stripped: the trimmed text with a leading fence removed
StripFences(text) == RemoveFence(Strip(text))

\* parsed.get(key); only a dict has the method
HasGet(v) == v.type = "dict"
DictGet(d, key) == IF key \in DOMAIN d.items THEN d.items[key] ELSE PyNone

RawDict(text) == PyDict([k \in {"raw"} |-> PyStr(text)])

\* the entries appended before parsed.get is reached, so that a decoded value
\* without the method is logged as it is
TryParse_AppendFirst(stripped, decoded) ==
    IF decoded.ok
    THEN [final_answer |-> IF HasGet(decoded.val) THEN DictGet(decoded.val, "answer") ELSE PyNone,
          raw |-> stripped,
          parsed |-> decoded.val]
    ELSE [final_answer |-> PyNone,
          raw |-> stripped,
          parsed |-> RawDict(stripped)]

\* the try/except around json.loads: the answer it leaves in final_answer and
\* the entries it appends to answer_json_log and answer_structured_log
TryParse(stripped, decoded) ==
    IF decoded.ok /\ HasGet(decoded.val)
    THEN [final_answer |-> DictGet(decoded.val, "answer"),
          raw |-> stripped,
          parsed |-> decoded.val]
    ELSE [final_answer |-> PyNone,
          raw |-> stripped,
          parsed |-> RawDict(stripped)]

Interpret(stripped) == TryParse(stripped, json_loads(stripped))

\* the parsed answer never used: the raw output shown on every turn
FinalAnswer_AlwaysRaw(final_answer, model_output) ==
    IF IsStr(model_output) THEN model_output ELSE PyStr(str(model_output))

\* final_answer after the "if final_answer is None" fallback
FinalAnswer(final_answer, model_output) ==
    IF final_answer = PyNone
    THEN (IF IsStr(model_output) THEN model_output ELSE PyStr(str(model_output)))
    ELSE final_answer

\* the tuple a not-ready chat returns
EarlyReturn(new_history) == <<new_history, "">>

\* the tuple a ready chat returns
FullReturn(new_history, json_log) == <<new_history, "", Join("\n", json_log)>>

\* a turn that found no document or no key
RefuseTurn(user_message, message) ==
    /\ history' = Append(history, <<user_message, PyStr(message)>>)
    /\ chat_return' = EarlyReturn(history')
    /\ turns' = Append(turns, [user_message |-> user_message, invoked |-> FALSE,
                               prompt |-> "", outcome |-> NotInvoked,
                               raw_len |-> Len(answer_json_log),
                               parsed_len |-> Len(answer_structured_log)])
    /\ UNCHANGED <<conversation_logs, answer_json_log, answer_structured_log>>

\* the "if isinstance(model_output, str)" block and what follows it
RecordTurn(user_message, model_output, interp) ==
    /\ IF IsStr(model_output) THEN
            /\ answer_json_log' = Append(answer_json_log, interp.raw)
            /\ answer_structured_log' = Append(answer_structured_log, interp.parsed)
       ELSE UNCHANGED <<answer_json_log, answer_structured_log>>
    /\ conversation_logs' = Append(conversation_logs,
            json_dumps([user |-> user_message,
                        answer |-> FinalAnswer(interp.final_answer, model_output)]))
    /\ history' = Append(history, <<user_message, FinalAnswer(interp.final_answer, model_output)>>)
    /\ chat_return' = FullReturn(history', answer_json_log')

\* interpretation is skipped for a model_output that is not a str
NotInterpreted == [final_answer |-> PyNone, raw |-> "", parsed |-> PyNone]

\* a turn that found a document and a key
AnswerTurn(user_message, outcome, model_output) ==
    /\ turns' = Append(turns,
            [user_message |-> user_message,
             invoked |-> gemini_call # "None",
             prompt |-> IF gemini_call # "None"
                        THEN ComposePrompt(PROMPT_CONTRACT, pdf_text_content, user_message)
                        ELSE "",
             outcome |-> outcome,
             raw_len |-> Len(answer_json_log),
             parsed_len |-> Len(answer_structured_log)])
    /\ RecordTurn(user_message, model_output,
                  IF IsStr(model_output) THEN Interpret(StripFences(model_output.chars))
                  ELSE NotInterpreted)

chat(user_message, outcome) ==
    /\ last' = [op |-> "chat", user_message |-> user_message]
    /\ UNCHANGED <<env, pdf_text_content, api_key, gemini_call, status_output, uploads>>
    /\ IF MissingDocument(pdf_text_content) THEN RefuseTurn(user_message, NoDocumentMessage)
       ELSE IF MissingKey(api_key) THEN RefuseTurn(user_message, NoKeyMessage)
       ELSE AnswerTurn(user_message, outcome, CallModel(gemini_call, outcome))

-----------------------------------------------------------------------------
(* Specification *)

Init ==
    /\ PdfReader \in BOOLEAN
    /\ genai \in BOOLEAN
    /\ generativeai \in BOOLEAN
    /\ pdf_text_content = ""
    /\ api_key = ""
    /\ gemini_call = "None"
    /\ conversation_logs = <<>>
    /\ answer_json_log = <<>>
    /\ answer_structured_log = <<>>
    /\ history = <<>>
    /\ status_output = ""
    /\ chat_return = <<>>
    /\ turns = <<>>
    /\ uploads = 0
    /\ last = [op |-> "start", user_message |-> ""]

\* the outcomes the model callable can have in the turn about to run
TurnOutcomes(texts, messages) ==
    IF MissingDocument(pdf_text_content) \/ MissingKey(api_key) \/ gemini_call = "None"
    THEN {NotInvoked}
    ELSE Outcomes(gemini_call, texts, messages)

Upload ==
    /\ uploads < MaxUploads
    /\ \E pdf_file \in PdfFiles, user_api_key \in ApiKeys : upload_and_prepare(pdf_file, user_api_key)

Chat ==
    /\ Len(history) < MaxTurns
    /\ \E user_message \in Questions, outcome \in TurnOutcomes(SessionOutputs, SessionExceptions) :
          chat(user_message, outcome)

Next == Upload \/ Chat

\* any sequence of uploads and turns, with one model reply of each kind
Spec == Init /\ [][Next]_vars

\* one upload of a readable PDF with a key
Setup ==
    /\ uploads = 0
    /\ upload_and_prepare(Pdf(<<PyStr("Revenue was $5M.")>>), "key-1")

\* a turn whose model reply is any of RawOutputs
Ask ==
    /\ Len(history) < MaxTurns
    /\ \E user_message \in Questions, outcome \in TurnOutcomes(RawOutputs, ExceptionMessages) :
          chat(user_message, outcome)

ReplyNext == Setup \/ Ask

\* turns before and after one successful upload, over every model reply
ReplySpec == Init /\ [][ReplyNext]_vars

-----------------------------------------------------------------------------
(* Properties *)

\* a step that is one chat call
TurnStep == Len(turns') = Len(turns) + 1

\* DocumentText and Credential both non-empty
ReadyNow == pdf_text_content # "" /\ api_key # ""

\* the text a str model output leaves after trimming and fence stripping
TextOf(outcome) == StripFences(outcome.value.chars)

ReturnsText(outcome) == outcome.kind = "return" /\ outcome.value.type = "str"

\* a decoding result that is a JSON object
IsObject(decoded) == decoded.ok /\ decoded.val.type = "dict"

\* a decoding result that is a JSON object with an "answer" key
HasAnswerKey(decoded) == IsObject(decoded) /\ "answer" \in DOMAIN decoded.val.items

AnswerIn(decoded) == decoded.val.items["answer"]

\* the interpretation of a raw-log entry: the decoded object, or {"raw": entry}
Interpreted(entry, decoded) ==
    IF IsObject(decoded) THEN decoded.val ELSE PyDict([k \in {"raw"} |-> PyStr(entry)])

Interpretation(entry) == Interpreted(entry, json_loads(entry))

GainOne(old, new) == Len(new) = Len(old) + 1 /\ SubSeq(new, 1, Len(old)) = old

\* C1: after any sequence of upload_and_prepare and chat calls, whatever the
\* model did, answer_json_log and answer_structured_log have equal length and
\* entry i of the parsed log is the interpretation of entry i of the raw log
\* (the decoded object, or {"raw": entry i}).
C1_LogsAligned ==
    /\ Len(answer_json_log) = Len(answer_structured_log)
    /\ \A i \in 1..Len(answer_json_log) :
          answer_structured_log[i] = Interpretation(answer_json_log[i])

\* two turns logged, one as a decoded object and one, a JSON array, as
\* {"raw": ...}
C1_Witness ==
    /\ Len(answer_json_log) = 2
    /\ \E i, j \in 1..2 :
          /\ DOMAIN answer_structured_log[i].items = {"answer", "evidence"}
          /\ answer_structured_log[j] = PyDict([k \in {"raw"} |-> PyStr("[\"$5M\"]")])

\* C2: a chat turn submitted while DocumentText or Credential is empty
\* appends exactly one (question, instructional message) pair to the
\* transcript, makes no model call, and leaves the raw-reply log, the
\* parsed-reply log and the event log unchanged.
C2_NotReadyTurn ==
    [][ (TurnStep /\ ~ReadyNow) =>
          /\ GainOne(history, history')
          /\ Last(history')[1] = last'.user_message
          /\ Last(history')[2] \in {PyStr(NoDocumentMessage), PyStr(NoKeyMessage)}
          /\ ~Last(turns').invoked
          /\ UNCHANGED <<answer_json_log, answer_structured_log, conversation_logs>>
      ]_vars

\* a turn refused after an earlier turn was answered: a later upload of a PDF
\* without pages emptied the document
C2_Witness ==
    /\ last.op = "chat"
    /\ pdf_text_content = ""
    /\ api_key # ""
    /\ Len(history) = 2
    /\ Len(answer_json_log) = 1
    /\ Last(history)[2] = PyStr(NoDocumentMessage)

\* C3 as stated: in Ready state with the callable bound, the model is invoked
\* once with the contract, "Document contents:", DocumentText and the
\* question joined by single newlines and nothing else between the parts.
C3_SingleNewlines ==
    [][ (TurnStep /\ ReadyNow /\ gemini_call # "None") =>
          /\ Last(turns').invoked
          /\ Last(turns').prompt =
                PROMPT_CONTRACT \o "\n" \o "Document contents:" \o "\n" \o pdf_text_content
                \o "\n" \o last'.user_message
      ]_vars

\* C3 as amended: in Ready state with the callable bound, the model is
\* invoked once with the contract, a newline, "Document contents:", a
\* newline, DocumentText, two newlines and the question, in that order.
C3_PromptLayout ==
    [][ (TurnStep /\ ReadyNow /\ gemini_call # "None") =>
          /\ Last(turns').invoked
          /\ Last(turns').prompt =
                PROMPT_CONTRACT \o "\n" \o "Document contents:" \o "\n" \o pdf_text_content
                \o "\n\n" \o last'.user_message
      ]_vars

\* a turn that sent the prompt for the two-page document
C3_Witness ==
    /\ last.op = "chat"
    /\ pdf_text_content = "Revenue was $5M.\n\n"
    /\ Last(turns).invoked
    /\ Last(turns).prompt =
          "<contract>Reply in JSON with an answer key.</contract>\nDocument contents:\n"
          \o "Revenue was $5M.\n\n\n\nWhat was revenue?"

\* the last handler was a chat answered in Ready state with a text reply
TextTurn == last.op = "chat" /\ ReadyNow /\ ReturnsText(Last(turns).outcome)

\* the last turn appended exactly one entry, this one, to each reply log
Logged(raw, parsed) ==
    /\ Len(answer_json_log) = Last(turns).raw_len + 1
    /\ Last(answer_json_log) = raw
    /\ Len(answer_structured_log) = Last(turns).parsed_len + 1
    /\ Last(answer_structured_log) = parsed

\* what a turn whose reply decodes to an object with answer X is to leave
AnswerShown(text, decoded) ==
    /\ Len(history) = Len(turns)
    /\ Last(history) = <<last.user_message, AnswerIn(decoded)>>
    /\ Logged(text, decoded.val)

AnyAnswerShown(text, decoded) == HasAnswerKey(decoded) => AnswerShown(text, decoded)

NonNullAnswer(decoded) == HasAnswerKey(decoded) /\ AnswerIn(decoded) # PyNone

NonNullAnswerShown(text, decoded) == NonNullAnswer(decoded) => AnswerShown(text, decoded)

\* C4 as stated: in Ready state, for any raw model output that is a JSON
\* object with an "answer" key of value X, the transcript entry appended is
\* (question, X), the parsed-log entry appended is the decoded object and the
\* raw-log entry appended is the output after trimming and fence stripping.
C4_AnswerShown ==
    TextTurn => AnyAnswerShown(TextOf(Last(turns).outcome),
                               json_loads(TextOf(Last(turns).outcome)))

\* C4 as amended: in Ready state, for any raw model output that is a JSON
\* object with an "answer" key whose value X is not null, the transcript
\* entry appended is (question, X), the parsed-log entry appended is the
\* decoded object and the raw-log entry appended is the output after trimming
\* and fence stripping.
C4_NonNullAnswerShown ==
    TextTurn => NonNullAnswerShown(TextOf(Last(turns).outcome),
                                   json_loads(TextOf(Last(turns).outcome)))

\* the fenced reply of the revenue scenario, answered with "$5M"
C4_Witness ==
    /\ last.op = "chat"
    /\ Last(turns).outcome =
          Return(PyStr(Fenced("json", "{\"answer\": \"$5M\", \"evidence\": \"page 1\"}")))
    /\ Last(history) = <<"What was revenue?", PyStr("$5M")>>
    /\ Last(answer_json_log) = "{\"answer\": \"$5M\", \"evidence\": \"page 1\"}\n"
    /\ DOMAIN Last(answer_structured_log).items = {"answer", "evidence"}

\* what a turn whose reply is not JSON is to leave, t being the reply after
\* trimming and fence stripping
RawTextShown(t, decoded) ==
    ~decoded.ok =>
        /\ Last(history) = <<last.user_message, PyStr(t)>>
        /\ Logged(t, PyDict([k \in {"raw"} |-> PyStr(t)]))

\* C5: in Ready state, for any raw model output that is not valid JSON, the
\* displayed answer is the text t left by trimming and fence stripping, the
\* same t that is appended to the raw-reply log, and the parsed-log entry
\* appended is {"raw": t}.
C5_RawTextShown ==
    TextTurn => RawTextShown(TextOf(Last(turns).outcome),
                             json_loads(TextOf(Last(turns).outcome)))

\* turn i answered B wrapped in fences with a tag line, turn j answered B
FencedPair(i, j) ==
    /\ turns[i].invoked /\ turns[j].invoked
    /\ ReturnsText(turns[i].outcome) /\ ReturnsText(turns[j].outcome)
    /\ \E tag \in Tags :
          turns[i].outcome.value.chars = Fenced(tag, turns[j].outcome.value.chars)

\* C6 as stated: for any body B, the turn whose model output is B wrapped in
\* fences with a leading tag line shows the same answer as the turn whose
\* model output is B.
C6_FencedSameAnswer ==
    \A i, j \in 1..Len(turns) : FencedPair(i, j) => history[i][2] = history[j][2]

\* C6 as amended: for any body B that json.loads decodes to an object whose
\* "answer" value is not null, the turn whose model output is B wrapped in
\* fences with a leading tag line shows the same answer as the turn whose
\* model output is B.
C6_FencedSameParsedAnswer ==
    \A i, j \in 1..Len(turns) :
        (FencedPair(i, j) /\ NonNullAnswer(json_loads(turns[j].outcome.value.chars)))
        => history[i][2] = history[j][2]

\* the revenue reply fenced with the tag json in one turn and bare in the
\* next, both answered with "$5M"
C6_Witness ==
    /\ Len(turns) = 2
    /\ turns[2].outcome = Return(PyStr("{\"answer\": \"$5M\", \"evidence\": \"page 1\"}"))
    /\ turns[1].outcome = Return(PyStr(Fenced("json", turns[2].outcome.value.chars)))
    /\ history[1][2] = PyStr("$5M")
    /\ history[2][2] = PyStr("$5M")

\* C7: in Ready state, when the model call raises, one call is attempted, the
\* transcript gains one entry whose answer is the error string "Error calling
\* Gemini API: <exception>", and the raw-reply log and the parsed-reply log
\* each gain one entry, the parsed one being {"raw": error string}.
C7_ErrorAsAnswer ==
    [][ (TurnStep /\ ReadyNow /\ Last(turns').outcome.kind = "raise") =>
          /\ Last(turns').invoked
          /\ GainOne(history, history')
          /\ Last(history')[2] = PyStr("Error calling Gemini API: " \o Last(turns').outcome.msg)
          /\ GainOne(answer_json_log, answer_json_log')
          /\ GainOne(answer_structured_log, answer_structured_log')
          /\ Last(answer_structured_log') = PyDict([k \in {"raw"} |-> Last(history')[2]])
      ]_vars

\* C8: once pdf_text_content is non-empty, no upload_and_prepare or chat call
\* makes it empty again.
C8_DocumentKept == [][pdf_text_content # "" => pdf_text_content' # ""]_vars

\* C9: every call to chat, Ready or not, returns three values: the updated
\* history, an empty string and the newline-joined raw-reply log.
C9_ThreeValues ==
    last.op = "chat" =>
        /\ Len(chat_return) = 3
        /\ chat_return[1] = history
        /\ chat_return[2] = ""
        /\ chat_return[3] = Join("\n", answer_json_log)

\* C10: every chat turn processed in Ready state appends exactly one entry to
\* the raw-reply log and exactly one to the parsed-reply log, whatever the
\* model callable returns or raises.
C10_OneEntryPerReadyTurn ==
    [][ (TurnStep /\ ReadyNow) =>
          /\ GainOne(answer_json_log, answer_json_log')
          /\ GainOne(answer_structured_log, answer_structured_log')
      ]_vars

====
